---- MODULE Spec2Model ----
(***************************************************************************)
(* Model of the Olist category analytics pipeline:                         *)
(*   src/src/category_mapper.py  CategoryMapper                            *)
(*   src/src/data_loader.py      OlistDataLoader.prepare_product_categories*)
(*   src/src/analyzer.py         OlistAnalyzer.calculate_category_metrics, *)
(*                               OlistAnalyzer.analyze_delivery_metrics    *)
(*                                                                         *)
(* A string is a sequence of one-character strings, so that str.title(),   *)
(* str.replace() and the spreadsheet reader's missing-value markers are    *)
(* computed on the characters.  The pandas missing value (NaN / NaT) is    *)
(* the one-element sequence NaN, which no string equals.  A DataFrame is   *)
(* a sequence of records, one record per row.  A float that need not be an *)
(* integer (a mean, a share, an average rank) is a pair <<num, den>>,      *)
(* with den = 0 for the float NaN.                                         *)
(***************************************************************************)
EXTENDS Integers, Sequences, FiniteSets, TLC

VARIABLES
    categories_df,  \* OlistDataLoader.datasets['categories'], the translation table
    alive,          \* a process holding a CategoryMapper is running
    mapping_df,     \* CategoryMapper.mapping_df
    mapping_file,   \* the spreadsheet at CategoryMapper.mapping_file
    ret,            \* what the last CategoryMapper / loader call returned or raised
    built,          \* the mapping_df the file on disk was built from, while the file is as built
    items_df,       \* OlistAnalyzer.items_df
    products_df,    \* OlistAnalyzer.products_df
    datasets,       \* OlistAnalyzer.datasets (the attribute analyze_delivery_metrics reads)
    metrics,        \* what calculate_category_metrics returned
    delivery        \* what analyze_delivery_metrics returned or raised

vars == <<categories_df, alive, mapping_df, mapping_file, ret, built,
          items_df, products_df, datasets, metrics, delivery>>

mapperVars == <<categories_df, alive, mapping_df, mapping_file, ret, built>>
analyzerVars == <<items_df, products_df, datasets, metrics, delivery>>

-----------------------------------------------------------------------------
(* Bounds of the model.                                                    *)

MaxCatRows == 2       \* rows of the category-translation table
MaxItems == 2         \* rows of items_df
MaxProducts == 2      \* rows of products_df given to the analyzer
MaxOrders == 2        \* rows of the orders table

SeqsUpTo(S, n) == UNION {[1..k -> S] : k \in 0..n}

RECURSIVE SumSeq(_)
SumSeq(s) == IF s = <<>> THEN 0 ELSE Head(s) + SumSeq(Tail(s))

-----------------------------------------------------------------------------
(* Strings and missing values.                                             *)

NaN == <<"NaN">>

Lowers == <<"a","b","c","d","e","f","g","h","i","j","k","l","m",
            "n","o","p","q","r","s","t","u","v","w","x","y","z">>
Uppers == <<"A","B","C","D","E","F","G","H","I","J","K","L","M",
            "N","O","P","Q","R","S","T","U","V","W","X","Y","Z">>

IndexIn(c, alphabet) == CHOOSE i \in 1..Len(alphabet) : alphabet[i] = c
IsLower(c) == \E i \in 1..Len(Lowers) : Lowers[i] = c
IsUpper(c) == \E i \in 1..Len(Uppers) : Uppers[i] = c
IsCased(c) == IsLower(c) \/ IsUpper(c)
ToUpper(c) == IF IsLower(c) THEN Uppers[IndexIn(c, Lowers)] ELSE c
ToLower(c) == IF IsUpper(c) THEN Lowers[IndexIn(c, Uppers)] ELSE c

\* str.title(): a cased character is upper-cased when it follows an uncased
\* one (or starts the string) and lower-cased otherwise.
StrTitle(s) ==
    [i \in 1..Len(s) |->
        IF i = 1 \/ ~IsCased(s[i - 1]) THEN ToUpper(s[i]) ELSE ToLower(s[i])]

\* str.replace(old, new) for one-character old and new.
StrReplace(s, old, new) == [i \in 1..Len(s) |-> IF s[i] = old THEN new ELSE s[i]]

pd_notna(x) == x # NaN

Unknown == <<"U","n","k","n","o","w","n">>

\* The element-wise == of a pandas column with a scalar: a missing value
\* equals nothing, itself included.
PdEq(a, b) == a # NaN /\ b # NaN /\ a = b

-----------------------------------------------------------------------------
(* The values the model draws its inputs from.                             *)

cama == <<"c","a","m","a">>
pcs == <<"p","c","s">>
sala == <<"s","a","l","a">>
bed_bath == <<"b","e","d"," ","b","a","t","h">>
hash_na == <<"#","n","/","a">>
Home == <<"H","o","m","e">>
Toys == <<"T","o","y","s">>

\* product_category_name values of the translation table
RawLabels == {cama, pcs}
\* product_category_name_english values of the translation table, as read_csv
\* gives them: a string that is no missing-value marker, or a missing value
EnglishLabels == {bed_bath, hash_na, NaN}
\* arguments of get_normalized_category: table labels, a label no table has, a missing value
QueryLabels == RawLabels \cup {sala, NaN}

CategoryRows ==
    [product_category_name : RawLabels, product_category_name_english : EnglishLabels]
CategoryTables == SeqsUpTo(CategoryRows, MaxCatRows)

RawProductRows == [product_id : {"A"}, product_category_name : QueryLabels]
RawProductTables == {<<>>} \cup {<<r>> : r \in RawProductRows}

-----------------------------------------------------------------------------
(* CategoryMapper.                                                         *)

NoneDF == [isNone |-> TRUE, rows |-> <<>>]
DF(rows) == [isNone |-> FALSE, rows |-> rows]

NoFile == [exists |-> FALSE, rows |-> <<>>]
File(rows) == [exists |-> TRUE, rows |-> rows]

NoRet == [op |-> "none", arg |-> NaN, raised |-> "", value |-> NaN, table |-> <<>>]
Returned(op, arg, value) ==
    [op |-> op, arg |-> arg, raised |-> "", value |-> value, table |-> <<>>]
ReturnedTable(op, table) ==
    [op |-> op, arg |-> NaN, raised |-> "", value |-> NaN, table |-> table]
Raised(op, arg, exc) ==
    [op |-> op, arg |-> arg, raised |-> exc, value |-> NaN, table |-> <<>>]

\* The lambda of create_initial_mapping.
Normalize(x) == IF pd_notna(x) THEN StrReplace(StrTitle(x), " ", "_") ELSE Unknown

MappingRow(c) ==
    [original_portuguese_category |-> c.product_category_name,
     english_translation |-> c.product_category_name_english,
     normalized_category |-> Normalize(c.product_category_name_english)]

\* DataFrame.drop_duplicates(): a row goes when an earlier row equals it in
\* every column (two missing values count as equal).
RECURSIVE DropDuplicates(_)
DropDuplicates(rows) ==
    IF rows = <<>> THEN <<>>
    ELSE LET init == DropDuplicates(SubSeq(rows, 1, Len(rows) - 1))
             last == rows[Len(rows)]
         IN  IF \E i \in 1..Len(init) : init[i] = last THEN init
             ELSE Append(init, last)

InitialMapping(categories) ==
    DropDuplicates([i \in 1..Len(categories) |-> MappingRow(categories[i])])

\* The strings pandas readers turn into missing values by default.
DefaultNA ==
    { <<>>,
      <<"#","N","/","A">>, <<"#","N","/","A"," ","N","/","A">>, <<"#","N","A">>,
      <<"-","1",".","#","I","N","D">>, <<"-","1",".","#","Q","N","A","N">>,
      <<"-","N","a","N">>, <<"-","n","a","n">>,
      <<"1",".","#","I","N","D">>, <<"1",".","#","Q","N","A","N">>,
      <<"<","N","A",">">>, <<"N","/","A">>, <<"N","A">>, <<"N","U","L","L">>,
      <<"N","a","N">>, <<"N","o","n","e">>, <<"n","/","a">>, <<"n","a","n">>,
      <<"n","u","l","l">> }

\* DataFrame.to_excel(index=False): a missing value is written as a blank cell.
ToCell(v) == IF v = NaN THEN <<>> ELSE v
ToExcelRow(r) ==
    [original_portuguese_category |-> ToCell(r.original_portuguese_category),
     english_translation |-> ToCell(r.english_translation),
     normalized_category |-> ToCell(r.normalized_category)]
to_excel(rows) == [i \in 1..Len(rows) |-> ToExcelRow(rows[i])]

\* pd.read_excel(): a blank cell and a cell holding a default missing-value
\* marker are both read as missing.
FromCell(c) == IF c \in DefaultNA THEN NaN ELSE c
FromExcelRow(r) ==
    [original_portuguese_category |-> FromCell(r.original_portuguese_category),
     english_translation |-> FromCell(r.english_translation),
     normalized_category |-> FromCell(r.normalized_category)]
read_excel(rows) == [i \in 1..Len(rows) |-> FromExcelRow(rows[i])]

\* save_mapping
SavedFile(df, file) == IF ~df.isNone THEN File(to_excel(df.rows)) ELSE file

\* The rows get_normalized_category selects.
Match(rows, portuguese_category) ==
    LET Hit(r) == PdEq(r.original_portuguese_category, portuguese_category)
    IN  SelectSeq(rows, Hit)

LookupFirstOrRawLabel(rows, portuguese_category) ==
    LET match == Match(rows, portuguese_category)
    IN  IF Len(match) > 0 THEN match[1].normalized_category ELSE portuguese_category

\* get_normalized_category on a mapping that is held in memory.
Lookup(rows, portuguese_category) ==
    LET match == Match(rows, portuguese_category)
    IN  IF Len(match) > 0 THEN match[1].normalized_category ELSE Unknown

-----------------------------------------------------------------------------
(* OlistDataLoader.prepare_product_categories.                             *)

AlwaysCreate(file) == TRUE

\* The test of prepare_product_categories: the mapping is created when no
\* file is there.
MustCreate(file) == ~file.exists

\* DataFrame.merge(how='left') of the products with the translation table on
\* product_category_name: one row per matching translation row, in order,
\* and one row with a missing translation when none matches (merge matches
\* two missing keys).
RECURSIVE MergeCategories(_, _)
MergeCategories(products, categories) ==
    IF products = <<>> THEN <<>>
    ELSE LET p == Head(products)
             SameKey(c) == c.product_category_name = p.product_category_name
             hits == SelectSeq(categories, SameKey)
             Joined(english) ==
                 [product_id |-> p.product_id,
                  product_category_name |-> p.product_category_name,
                  product_category_name_english |-> english]
             rows == IF hits = <<>> THEN << Joined(NaN) >>
                     ELSE [i \in 1..Len(hits) |->
                              Joined(hits[i].product_category_name_english)]
         IN  rows \o MergeCategories(Tail(products), categories)

\* merged_df with the normalized_category column applied.
WithNormalized(merged, rows) ==
    [i \in 1..Len(merged) |->
        [product_id |-> merged[i].product_id,
         product_category_name |-> merged[i].product_category_name,
         product_category_name_english |-> merged[i].product_category_name_english,
         normalized_category |-> Lookup(rows, merged[i].product_category_name)]]

-----------------------------------------------------------------------------
(* The actions of a process that holds a CategoryMapper.                   *)

\* CategoryMapper.__init__ (OlistDataLoader.__init__ in the pipeline).
NewMapper ==
    /\ ~alive
    /\ alive' = TRUE
    /\ mapping_df' = NoneDF
    /\ ret' = NoRet
    /\ UNCHANGED <<categories_df, mapping_file, built>>
    /\ UNCHANGED analyzerVars

create_initial_mapping ==
    /\ alive
    /\ mapping_df' = DF(InitialMapping(categories_df))
    /\ mapping_file' = SavedFile(mapping_df', mapping_file)
    /\ built' = mapping_df'
    /\ ret' = Returned("create_initial_mapping", NaN, NaN)
    /\ UNCHANGED <<categories_df, alive>>
    /\ UNCHANGED analyzerVars

load_mapping ==
    /\ alive
    /\ IF mapping_file.exists
       THEN /\ mapping_df' = DF(read_excel(mapping_file.rows))
            /\ ret' = Returned("load_mapping", NaN, NaN)
       ELSE /\ mapping_df' = mapping_df
            /\ ret' = Raised("load_mapping", NaN, "FileNotFoundError")
    /\ UNCHANGED <<categories_df, alive, mapping_file, built>>
    /\ UNCHANGED analyzerVars

save_mapping ==
    /\ alive
    /\ mapping_file' = SavedFile(mapping_df, mapping_file)
    /\ built' = IF mapping_file' = mapping_file THEN built ELSE NoneDF
    /\ ret' = Returned("save_mapping", NaN, NaN)
    /\ UNCHANGED <<categories_df, alive, mapping_df>>
    /\ UNCHANGED analyzerVars

get_normalized_category(portuguese_category) ==
    /\ alive
    /\ IF mapping_df.isNone /\ ~mapping_file.exists
       THEN \* load_mapping raises and the exception leaves the call
            /\ mapping_df' = mapping_df
            /\ ret' = Raised("get_normalized_category", portuguese_category,
                             "FileNotFoundError")
       ELSE /\ mapping_df' = IF mapping_df.isNone
                             THEN DF(read_excel(mapping_file.rows))
                             ELSE mapping_df
            /\ ret' = Returned("get_normalized_category", portuguese_category,
                               Lookup(mapping_df'.rows, portuguese_category))
    /\ UNCHANGED <<categories_df, alive, mapping_file, built>>
    /\ UNCHANGED analyzerVars

prepare_product_categories(products) ==
    /\ alive
    /\ IF MustCreate(mapping_file)
       THEN /\ mapping_df' = DF(InitialMapping(categories_df))
            /\ mapping_file' = SavedFile(mapping_df', mapping_file)
            /\ built' = mapping_df'
            /\ ret' = ReturnedTable("prepare_product_categories",
                          WithNormalized(MergeCategories(products, categories_df),
                                         mapping_df'.rows))
       ELSE IF mapping_file.exists
       THEN /\ mapping_df' = DF(read_excel(mapping_file.rows))
            /\ ret' = ReturnedTable("prepare_product_categories",
                          WithNormalized(MergeCategories(products, categories_df),
                                         mapping_df'.rows))
            /\ UNCHANGED <<mapping_file, built>>
       ELSE /\ ret' = Raised("prepare_product_categories", NaN, "FileNotFoundError")
            /\ UNCHANGED <<mapping_df, mapping_file, built>>
    /\ UNCHANGED <<categories_df, alive>>
    /\ UNCHANGED analyzerVars

\* The process ends; its CategoryMapper goes with it, the file stays.
ProcessExit ==
    /\ alive
    /\ alive' = FALSE
    /\ mapping_df' = NoneDF
    /\ ret' = NoRet
    /\ UNCHANGED <<categories_df, mapping_file, built>>
    /\ UNCHANGED analyzerVars

\* Between two runs a curator corrects the canonical label of one row of
\* the spreadsheet.
CurateFile(i) ==
    /\ ~alive
    /\ mapping_file.exists
    /\ i \in 1..Len(mapping_file.rows)
    /\ mapping_file.rows[i].normalized_category # Home
    /\ mapping_file' =
          File([mapping_file.rows EXCEPT ![i].normalized_category = Home])
    /\ built' = NoneDF
    /\ UNCHANGED <<categories_df, alive, mapping_df, ret>>
    /\ UNCHANGED analyzerVars

\* Between two runs the spreadsheet is removed.
RemoveFile ==
    /\ ~alive
    /\ mapping_file.exists
    /\ mapping_file' = NoFile
    /\ built' = NoneDF
    /\ UNCHANGED <<categories_df, alive, mapping_df, ret>>
    /\ UNCHANGED analyzerVars

InitAnalyzerIdle ==
    /\ items_df = <<>>
    /\ products_df = <<>>
    /\ datasets = [set |-> FALSE, orders |-> <<>>]
    /\ metrics = [called |-> FALSE, raised |-> "", rows |-> <<>>]
    /\ delivery = [called |-> FALSE, raised |-> "", rows |-> <<>>]

InitMapper ==
    /\ categories_df \in CategoryTables
    /\ alive = FALSE
    /\ mapping_df = NoneDF
    /\ mapping_file = NoFile
    /\ ret = NoRet
    /\ built = NoneDF
    /\ InitAnalyzerIdle

NextMapper ==
    \/ NewMapper
    \/ create_initial_mapping
    \/ load_mapping
    \/ save_mapping
    \/ \E label \in QueryLabels : get_normalized_category(label)
    \/ \E products \in RawProductTables : prepare_product_categories(products)
    \/ ProcessExit
    \/ \E i \in 1..MaxCatRows : CurateFile(i)
    \/ RemoveFile

SpecMapper == InitMapper /\ [][NextMapper]_vars

-----------------------------------------------------------------------------
(* OlistAnalyzer: the inputs.                                              *)

ItemProductIds == {"A", "B", "X"}
ProductIds == {"A", "B"}
Prices == {0, 10, 30}
OrderIds == {"o1", "o2"}
\* normalized_category values of products_df: get_normalized_category
\* returns a canonical label, the sentinel, or a missing cell of the file
Categories == {Toys, Unknown, NaN}
\* the keys of a groupby on normalized_category, as groupby sorts them
SortedCategories == <<Toys, Unknown>>

NaT == [nat |-> TRUE, day |-> 0]
Day(d) == [nat |-> FALSE, day |-> d]

ItemRows(orderIds, prices) ==
    [order_item_id : {1}, order_id : orderIds, product_id : ItemProductIds,
     price : prices]
ProductRows == [product_id : ProductIds, normalized_category : Categories]
OrderRows ==
    [order_id : OrderIds, order_purchase_timestamp : {Day(0)},
     order_delivered_customer_date : {NaT, Day(2), Day(5)}]

NoDatasets == [set |-> FALSE, orders |-> <<>>]
Datasets(orders) == [set |-> TRUE, orders |-> orders]

\* A float as a fraction; den = 0 is the float NaN.
Frac(num, den) == <<num, den>>
IsNaNFloat(f) == f[2] = 0
FracEq(f, g) == ~IsNaNFloat(f) /\ ~IsNaNFloat(g) /\ f[1] * g[2] = g[1] * f[2]

-----------------------------------------------------------------------------
(* OlistAnalyzer.calculate_category_metrics.                               *)

\* items.merge(products[['product_id', 'normalized_category']],
\* on='product_id', how=...): one row per (item, product row) pair with the
\* same product_id; with how='left' an item no product row matches is kept
\* with a missing normalized_category.
RECURSIVE MergeProducts(_, _, _)
MergeProducts(items, products, how) ==
    IF items = <<>> THEN <<>>
    ELSE LET it == Head(items)
             SameId(p) == p.product_id = it.product_id
             hits == SelectSeq(products, SameId)
             Joined(category) ==
                 [order_item_id |-> it.order_item_id, order_id |-> it.order_id,
                  product_id |-> it.product_id, price |-> it.price,
                  normalized_category |-> category]
             rows == IF hits = <<>>
                     THEN IF how = "left" THEN << Joined(NaN) >> ELSE <<>>
                     ELSE [i \in 1..Len(hits) |-> Joined(hits[i].normalized_category)]
         IN  rows \o MergeProducts(Tail(items), products, how)

\* The rows of one group of groupby('normalized_category'); a missing key is
\* in no group.
Group(sales_data, category) ==
    LET InGroup(r) == PdEq(r.normalized_category, category)
    IN  SelectSeq(sales_data, InGroup)

\* The keys of the groups, sorted.
GroupKeys(sales_data) ==
    LET Present(category) == Group(sales_data, category) # <<>>
    IN  SelectSeq(SortedCategories, Present)

NuniqueOrderItems(group) == Cardinality({group[i].order_item_id : i \in 1..Len(group)})

\* agg 'count' of order_item_id: the rows of the group (no order_item_id is missing).
CountOrderItems(group) == Len(group)

\* agg 'nunique' of product_id
NuniqueProducts(group) == Cardinality({group[i].product_id : i \in 1..Len(group)})

\* agg 'sum' of price
SumPrice(group) == SumSeq([i \in 1..Len(group) |-> group[i].price])

\* The aggregated table, before revenue_share and revenue_rank.
BaseMetrics(sales_data) ==
    LET keys == GroupKeys(sales_data)
    IN  [k \in 1..Len(keys) |->
            LET group == Group(sales_data, keys[k])
            IN  [normalized_category |-> keys[k],
                 total_sales |-> CountOrderItems(group),
                 total_revenue |-> SumPrice(group),
                 avg_ticket |-> Frac(SumPrice(group), Len(group)),
                 product_diversity |-> NuniqueProducts(group)]]

TotalRevenue(base) == SumSeq([i \in 1..Len(base) |-> base[i].total_revenue])

\* total_revenue / total_revenue.sum() * 100
RevenueShare(revenue, total) == Frac(revenue * 100, total)

\* Series.rank(ascending=False), whose method is 'average': the mean of the
\* positions the equal values take in descending order.
Rank(base, revenue) ==
    LET greater == Cardinality({i \in 1..Len(base) : base[i].total_revenue > revenue})
        equal == Cardinality({i \in 1..Len(base) : base[i].total_revenue = revenue})
    IN  Frac(2 * greater + equal + 1, 2)

WithShareAndRank(base) ==
    [k \in 1..Len(base) |->
        [normalized_category |-> base[k].normalized_category,
         total_sales |-> base[k].total_sales,
         total_revenue |-> base[k].total_revenue,
         avg_ticket |-> base[k].avg_ticket,
         product_diversity |-> base[k].product_diversity,
         revenue_share |-> RevenueShare(base[k].total_revenue, TotalRevenue(base)),
         revenue_rank |-> Rank(base, base[k].total_revenue)]]

\* sort_values('total_revenue', ascending=False): the rows in an order of
\* non-increasing total_revenue; the default sort is not stable, so equal
\* rows come in either order.
SortedByRevenue(rows) ==
    { [k \in 1..Len(rows) |-> rows[perm[k]]] :
        perm \in { q \in [1..Len(rows) -> 1..Len(rows)] :
                     /\ \A a, b \in 1..Len(rows) : a # b => q[a] # q[b]
                     /\ \A a, b \in 1..Len(rows) :
                           a < b => rows[q[a]].total_revenue >= rows[q[b]].total_revenue } }

SalesData == MergeProducts(items_df, products_df, "left")

NotCalled == [called |-> FALSE, raised |-> "", rows |-> <<>>]
Table(rows) == [called |-> TRUE, raised |-> "", rows |-> rows]
Failed(exc) == [called |-> TRUE, raised |-> exc, rows |-> <<>>]

calculate_category_metrics ==
    /\ \E sorted \in SortedByRevenue(WithShareAndRank(BaseMetrics(SalesData))) :
          metrics' = Table(sorted)
    /\ UNCHANGED <<items_df, products_df, datasets, delivery>>
    /\ UNCHANGED mapperVars

InitMapperIdle ==
    /\ categories_df = <<>>
    /\ alive = FALSE
    /\ mapping_df = NoneDF
    /\ mapping_file = NoFile
    /\ ret = NoRet
    /\ built = NoneDF

\* OlistAnalyzer.__init__: any sales and any products.
InitMetrics ==
    /\ items_df \in SeqsUpTo(ItemRows({"o1"}, Prices), MaxItems)
    /\ products_df \in SeqsUpTo(ProductRows, MaxProducts)
    /\ datasets = NoDatasets
    /\ metrics = NotCalled
    /\ delivery = NotCalled
    /\ InitMapperIdle

NextMetrics == calculate_category_metrics

SpecMetrics == InitMetrics /\ [][NextMetrics]_vars

-----------------------------------------------------------------------------
(* OlistAnalyzer.analyze_delivery_metrics.                                 *)

\* pd.to_datetime of a timestamp column: a missing cell becomes NaT.
to_datetime(t) == IF t.nat THEN NaT ELSE Day(t.day)

\* (delivered - purchase).dt.total_seconds() / 86400: days, NaN when either
\* timestamp is NaT.
DeliveryTime(order) ==
    LET purchased == to_datetime(order.order_purchase_timestamp)
        delivered == to_datetime(order.order_delivered_customer_date)
    IN  IF purchased.nat \/ delivered.nat THEN Frac(0, 0)
        ELSE Frac(delivered.day - purchased.day, 1)

\* delivery_data.merge(sold, on='order_id'): the inner join, one row per
\* (order row, sold row) pair with the same order_id.
RECURSIVE MergeOrders(_, _)
MergeOrders(orders, sold) ==
    IF orders = <<>> THEN <<>>
    ELSE LET o == Head(orders)
             SameOrder(r) == r.order_id = o.order_id
             hits == SelectSeq(sold, SameOrder)
         IN  [i \in 1..Len(hits) |->
                [order_id |-> o.order_id,
                 delivery_time |-> DeliveryTime(o),
                 normalized_category |-> hits[i].normalized_category]]
             \o MergeOrders(Tail(orders), sold)

\* The values of delivery_time an aggregation reads: it skips NaN.
DeliveredDays(group) ==
    LET Known(r) == ~IsNaNFloat(r.delivery_time)
        known == SelectSeq(group, Known)
    IN  [i \in 1..Len(known) |-> known[i].delivery_time[1]]

SeqMin(days) == CHOOSE d \in {days[i] : i \in 1..Len(days)} :
                    \A i \in 1..Len(days) : d <= days[i]
SeqMax(days) == CHOOSE d \in {days[i] : i \in 1..Len(days)} :
                    \A i \in 1..Len(days) : d >= days[i]
SumSquares(days) == SumSeq([i \in 1..Len(days) |-> days[i] * days[i]])

\* agg 'count' of order_id: the rows of the group whose order_id is not
\* missing, and no joined row misses it.
CountOrders(group) == Len(group)

\* One row of the table: mean, std (as its square, the sample variance,
\* NaN below two values), min, max of delivery_time, and the order count.
DeliveryRow(category, group) ==
    LET days == DeliveredDays(group)
        n == Len(days)
    IN  [normalized_category |-> category,
         delivery_time_mean |-> Frac(SumSeq(days), n),
         delivery_time_std_squared |->
             Frac(n * SumSquares(days) - SumSeq(days) * SumSeq(days), n * (n - 1)),
         delivery_time_min |-> IF n = 0 THEN Frac(0, 0) ELSE Frac(SeqMin(days), 1),
         delivery_time_max |-> IF n = 0 THEN Frac(0, 0) ELSE Frac(SeqMax(days), 1),
         order_id_count |-> CountOrders(group)]

DeliveryMetrics(orders, items, products) ==
    LET joined == MergeOrders(orders, MergeProducts(items, products, "inner"))
        keys == GroupKeys(joined)
    IN  [k \in 1..Len(keys) |-> DeliveryRow(keys[k], Group(joined, keys[k]))]

\* OlistAnalyzer.__init__ sets no datasets attribute; the method reads
\* self.datasets['orders'], which is there only when the caller put it there.
analyze_delivery_metrics ==
    /\ IF datasets.set
       THEN delivery' = Table(DeliveryMetrics(datasets.orders, items_df, products_df))
       ELSE delivery' = Failed("AttributeError")
    /\ UNCHANGED <<items_df, products_df, datasets, metrics>>
    /\ UNCHANGED mapperVars

\* OlistAnalyzer.__init__, and the caller attaching the orders table or not.
InitDelivery ==
    /\ items_df \in SeqsUpTo(ItemRows(OrderIds, {10}), MaxItems)
    /\ products_df \in SeqsUpTo(ProductRows, MaxProducts)
    /\ datasets \in {NoDatasets} \cup {Datasets(o) : o \in SeqsUpTo(OrderRows, MaxOrders)}
    /\ metrics = NotCalled
    /\ delivery = NotCalled
    /\ InitMapperIdle

NextDelivery ==
    \/ calculate_category_metrics
    \/ analyze_delivery_metrics

SpecDelivery == InitDelivery /\ [][NextDelivery]_vars

-----------------------------------------------------------------------------
(* Claims about calculate_category_metrics (SpecMetrics).                  *)

ProductIdsOf(products) == {products[i].product_id : i \in 1..Len(products)}
UnmatchedItems ==
    {i \in 1..Len(items_df) : items_df[i].product_id \notin ProductIdsOf(products_df)}
UnmatchedRevenue ==
    LET Price(i) == IF i \in UnmatchedItems THEN items_df[i].price ELSE 0
    IN  SumSeq([i \in 1..Len(items_df) |-> Price(i)])
MetricsRows == {metrics.rows[k] : k \in 1..Len(metrics.rows)}

\* C1: every order item whose product_id is in no row of the products table
\* is counted in the "Unknown" row of the returned table: that row exists
\* and its total_sales and total_revenue include all such items.
C1_UnmatchedItemsCountedAsUnknown ==
    (metrics.called /\ UnmatchedItems # {}) =>
        \E row \in MetricsRows :
            /\ row.normalized_category = Unknown
            /\ row.total_sales >= Cardinality(UnmatchedItems)
            /\ row.total_revenue >= UnmatchedRevenue

\* C2: revenue_rank is the dense rank of total_revenue, descending: the
\* largest revenue has rank 1, equal revenues have equal ranks, and the
\* ranks used are exactly 1..k for k distinct revenues.
C2_RevenueRankIsDense ==
    metrics.called =>
        /\ \A row \in MetricsRows :
              (\A other \in MetricsRows : other.total_revenue <= row.total_revenue)
                  => FracEq(row.revenue_rank, Frac(1, 1))
        /\ \A row, other \in MetricsRows :
              row.total_revenue = other.total_revenue
                  => FracEq(row.revenue_rank, other.revenue_rank)
        /\ \A d \in 1..Cardinality({row.total_revenue : row \in MetricsRows}) :
              \E row \in MetricsRows : FracEq(row.revenue_rank, Frac(d, 1))
        /\ \A row \in MetricsRows :
              \E d \in 1..Cardinality({r.total_revenue : r \in MetricsRows}) :
                  FracEq(row.revenue_rank, Frac(d, 1))

\* C3: when the revenues of the categories sum to zero the call aborts with
\* an error, and no returned table has an undefined revenue_share.
C3_ZeroRevenueAborts ==
    metrics.called =>
        /\ (BaseMetrics(SalesData) # <<>> /\ TotalRevenue(BaseMetrics(SalesData)) = 0)
              => metrics.raised # ""
        /\ \A row \in MetricsRows : ~IsNaNFloat(row.revenue_share)

\* The sum of the revenue_share column (a sum skips NaN); the shares of one
\* table have one denominator.
ShareNumerators ==
    [k \in 1..Len(metrics.rows) |->
        IF IsNaNFloat(metrics.rows[k].revenue_share) THEN 0
        ELSE metrics.rows[k].revenue_share[1]]
ShareDenominator == metrics.rows[1].revenue_share[2]

\* C7: the revenue_share values of the rows of a returned table sum to 100.
C7_SharesSumTo100 ==
    (metrics.called /\ metrics.raised = "" /\ metrics.rows # <<>>) =>
        FracEq(Frac(SumSeq(ShareNumerators), ShareDenominator), Frac(100, 1))

\* C8: in every row of the returned table product_diversity is at most
\* total_sales.
C8_DiversityAtMostSales ==
    metrics.called =>
        \A row \in MetricsRows : row.product_diversity <= row.total_sales

C8_Witness ==
    /\ metrics.called
    /\ \E row \in MetricsRows : row.product_diversity = 2 /\ row.total_sales = 2

-----------------------------------------------------------------------------
(* Claim about analyze_delivery_metrics (SpecDelivery).                    *)

Delivered(order) == ~order.order_delivered_customer_date.nat
DeliveredOrders == SelectSeq(datasets.orders, Delivered)

\* C6: an order without a delivery date contributes to no field of the
\* delivery table, the order count included: the table is the one the
\* delivered orders alone give.  Its items still count in total_sales.
C6_UndeliveredOrdersContributeNothing ==
    /\ (delivery.called /\ delivery.raised = "") =>
          delivery.rows = DeliveryMetrics(DeliveredOrders, items_df, products_df)
    /\ metrics.called =>
          \A row \in MetricsRows :
              row.total_sales = Len(Group(SalesData, row.normalized_category))

-----------------------------------------------------------------------------
(* Claims about CategoryMapper and the loader (SpecMapper).                *)

HasEntry(rows, label) ==
    \E i \in 1..Len(rows) : PdEq(rows[i].original_portuguese_category, label)

\* C4 as stated: a lookup of a label the mapping has no entry for returns
\* "Unknown" and does not raise, in every state, the one with no mapping in
\* memory and no file included.
C4_LookupMissNeverRaises ==
    (ret.op = "get_normalized_category" /\ ~HasEntry(mapping_df.rows, ret.arg)) =>
        ret.raised = "" /\ ret.value = Unknown

\* C4 as amended: a lookup made while a mapping is in memory or the file
\* exists does not raise, and returns "Unknown" for a label the mapping has
\* no entry for; a lookup made with neither raises FileNotFoundError.
C4_LookupMissWithMappingOrFile ==
    [][ret'.op = "get_normalized_category" =>
          IF ~mapping_df.isNone \/ mapping_file.exists
          THEN /\ ret'.raised = ""
               /\ ~HasEntry(mapping_df'.rows, ret'.arg) => ret'.value = Unknown
          ELSE ret'.raised = "FileNotFoundError"]_vars

C4_Witness ==
    /\ ret.op = "get_normalized_category"
    /\ ret.raised = ""
    /\ mapping_df.rows # <<>>
    /\ ~HasEntry(mapping_df.rows, ret.arg)
    /\ ret.value = Unknown

\* C5: after create_initial_mapping the mapping has at most one row for a
\* raw label.
C5_OneRowPerRawLabel ==
    ret.op = "create_initial_mapping" =>
        \A i, j \in 1..Len(mapping_df.rows) :
            mapping_df.rows[i].original_portuguese_category
                = mapping_df.rows[j].original_portuguese_category => i = j

RawLabelsAtBuild ==
    {categories_df[i].product_category_name : i \in 1..Len(categories_df)}

\* C9: after a build and a load of the file the build wrote, a lookup of
\* any raw label of the table gives what it gave on the mapping the build
\* left in memory.
C9_BuildLoadRoundTrip ==
    (ret.op = "load_mapping" /\ ret.raised = "" /\ ~built.isNone) =>
        \A label \in RawLabelsAtBuild :
            Lookup(mapping_df.rows, label) = Lookup(built.rows, label)

\* C10: a run of prepare_product_categories writes the file only when it
\* finds none, and then builds it from the translation table; a run that
\* finds the file loads it and leaves it as it is, curated cells included.
C10_FileWrittenOnlyWhenAbsent ==
    [][ret'.op = "prepare_product_categories" =>
          IF mapping_file.exists
          THEN /\ mapping_file' = mapping_file
               /\ mapping_df' = DF(read_excel(mapping_file.rows))
          ELSE mapping_file' = File(to_excel(InitialMapping(categories_df)))]_vars

C10_Witness ==
    /\ ret.op = "prepare_product_categories"
    /\ \E i \in 1..Len(mapping_file.rows) :
          /\ mapping_file.rows[i].normalized_category = Home
          /\ mapping_df.rows[i].normalized_category = Home

====
